---- MODULE Spec2Model ----
(***************************************************************************)
(* Model of plata/bot_finanzas_sheets.py: a Telegram conversation bot that *)
(* records credit/debit movements in two Google Sheets ledgers and reports *)
(* balance and recent history.                                             *)
(*                                                                         *)
(* A text (Python str) is a sequence of one-character strings, so that     *)
(* strip, lower, replace, int(), float(), strptime and the f-string        *)
(* formats are computed on the characters as the code computes them.       *)
(***************************************************************************)
EXTENDS Integers, Sequences, FiniteSets, TLC

VARIABLES
    conv_state,       \* ConversationHandler: (chat, user) |-> state, END when no conversation
    user_data,        \* context.user_data of each user
    sheets,           \* worksheet title |-> rows as get_all_values() returns them
    update,           \* the inbound message processed by the last turn
    replies,          \* the reply_text calls of the last turn, in order
    store_error,      \* the worksheet calls that raised in the last turn
    trail,            \* history: per conversation, the handlers whose turns moved it on
                      \* since it last stood in the main menu
    all_data,         \* ledger aggregator: rows handed to the function under test
    num_movimientos,  \* ledger aggregator: limit handed to obtener_ultimos_movimientos
    read_ok,          \* ledger aggregator: whether get_all_values() returns
    saldo_out,        \* ledger aggregator: result of calcular_saldo_desde_movimientos
    movs_out,         \* ledger aggregator: result of obtener_ultimos_movimientos
    pc                \* which part runs: "conv", or "in" / "saldo" / "movs" of the aggregator

vars == <<conv_state, user_data, sheets, update, replies, store_error, trail,
          all_data, num_movimientos, read_ok, saldo_out, movs_out, pc>>

convVars == <<conv_state, user_data, sheets, update, replies, store_error, trail>>
aggVars == <<all_data, num_movimientos, read_ok, saldo_out, movs_out>>

(***************************************************************************)
(* Python str operations                                                   *)
(***************************************************************************)
Digits == <<"0", "1", "2", "3", "4", "5", "6", "7", "8", "9">>

IsDigit(ch) == \E i \in 1..10 : Digits[i] = ch

DigitVal(ch) == (CHOOSE i \in 1..10 : Digits[i] = ch) - 1

AllDigits(t) == \A i \in 1..Len(t) : IsDigit(t[i])

RECURSIVE DigitsValue(_)
\* value of a run of decimal digits (0 for the empty run)
DigitsValue(t) ==
    IF t = <<>> THEN 0
    ELSE DigitsValue(SubSeq(t, 1, Len(t) - 1)) * 10 + DigitVal(t[Len(t)])

RECURSIVE NatToText(_)
NatToText(n) ==
    IF n < 10 THEN <<Digits[n + 1]>>
    ELSE NatToText(n \div 10) \o <<Digits[(n % 10) + 1]>>

\* str(n) of an int
IntToText(n) == IF n < 0 THEN <<"-">> \o NatToText(0 - n) ELSE NatToText(n)

RECURSIVE LStrip(_)
LStrip(t) == IF t # <<>> /\ t[1] = " " THEN LStrip(Tail(t)) ELSE t

RECURSIVE RStrip(_)
RStrip(t) ==
    IF t # <<>> /\ t[Len(t)] = " " THEN RStrip(SubSeq(t, 1, Len(t) - 1)) ELSE t

\* str.strip()
Strip(t) == RStrip(LStrip(t))

\* str.replace(ch, '')
RemoveChar(t, ch) == SelectSeq(t, LAMBDA x : x # ch)

UpperCase == <<"A", "B", "C", "D", "E", "H", "I", "N", "O", "R", "T", "Y", "É">>
LowerCase == <<"a", "b", "c", "d", "e", "h", "i", "n", "o", "r", "t", "y", "é">>

LowerChar(ch) ==
    IF \E i \in 1..Len(UpperCase) : UpperCase[i] = ch
    THEN LowerCase[CHOOSE i \in 1..Len(UpperCase) : UpperCase[i] = ch]
    ELSE ch

UpperChar(ch) ==
    IF \E i \in 1..Len(LowerCase) : LowerCase[i] = ch
    THEN UpperCase[CHOOSE i \in 1..Len(LowerCase) : LowerCase[i] = ch]
    ELSE ch

\* str.lower() and str.upper()
Lower(t) == [i \in 1..Len(t) |-> LowerChar(t[i])]
Upper(t) == [i \in 1..Len(t) |-> UpperChar(t[i])]

\* position of the first ch in t, 0 when there is none
IndexOf(t, ch) ==
    IF \E i \in 1..Len(t) : t[i] = ch
    THEN CHOOSE i \in 1..Len(t) : t[i] = ch /\ \A j \in 1..(i - 1) : t[j] # ch
    ELSE 0

\* an outcome of a conversion: a value, or the exception it raises
Ok(n) == [exc |-> "none", val |-> n]
Raise(e) == [exc |-> e, val |-> 0]

\* int(s): optional surrounding blanks, optional sign, at least one digit
PyInt(s) ==
    LET t == Strip(s)
        signed == t # <<>> /\ t[1] \in {"-", "+"}
        body == IF signed THEN Tail(t) ELSE t
    IN  IF body # <<>> /\ AllDigits(body)
        THEN Ok(IF signed /\ t[1] = "-" THEN 0 - DigitsValue(body) ELSE DigitsValue(body))
        ELSE Raise("ValueError")

\* int(float(s)): float() takes blanks, a sign, digits with an optional
\* fraction, and the words inf / infinity / nan; int() truncates towards
\* zero, raises OverflowError on an infinity and ValueError on a nan.
\* (Exponent notation is outside the alphabet of the inputs.)
PyIntOfFloat(s) ==
    LET t == Strip(s)
        signed == t # <<>> /\ t[1] \in {"-", "+"}
        neg == signed /\ t[1] = "-"
        body == IF signed THEN Tail(t) ELSE t
        dot == IndexOf(body, ".")
        whole == IF dot = 0 THEN body ELSE SubSeq(body, 1, dot - 1)
        frac == IF dot = 0 THEN <<>> ELSE SubSeq(body, dot + 1, Len(body))
    IN  IF Lower(body) \in {<<"i", "n", "f">>, <<"i", "n", "f", "i", "n", "i", "t", "y">>}
        THEN Raise("OverflowError")
        ELSE IF Lower(body) = <<"n", "a", "n">>
        THEN Raise("ValueError")
        ELSE IF AllDigits(whole) /\ AllDigits(frac) /\ Len(whole) + Len(frac) > 0
        THEN Ok(IF neg THEN 0 - DigitsValue(whole) ELSE DigitsValue(whole))
        ELSE Raise("ValueError")

RECURSIVE GroupThousands(_)
GroupThousands(t) ==
    IF Len(t) <= 3 THEN t
    ELSE GroupThousands(SubSeq(t, 1, Len(t) - 3)) \o <<",">> \o SubSeq(t, Len(t) - 2, Len(t))

\* f"{n:,}"
FormatThousands(n) ==
    IF n < 0 THEN <<"-">> \o GroupThousands(NatToText(0 - n))
    ELSE GroupThousands(NatToText(n))

(***************************************************************************)
(* Dates: datetime.strptime(s, '%Y-%m-%d'), strftime('%Y-%m-%d'), and      *)
(* today - timedelta(days=k)                                               *)
(***************************************************************************)
IsLeap(y) == (y % 4 = 0 /\ y % 100 # 0) \/ y % 400 = 0

DaysInMonth(y, m) ==
    IF m = 2 THEN (IF IsLeap(y) THEN 29 ELSE 28)
    ELSE IF m \in {4, 6, 9, 11} THEN 30 ELSE 31

\* the %m directive: 1[0-2] | 0[1-9] | [1-9]
MonthToken(t) ==
    \/ Len(t) = 2 /\ AllDigits(t) /\ DigitsValue(t) \in 1..12
    \/ Len(t) = 1 /\ AllDigits(t) /\ DigitsValue(t) \in 1..9

\* the %d directive: 3[01] | [12]\d | 0[1-9] | [1-9] | ' '[1-9]
DayToken(t) ==
    \/ Len(t) = 2 /\ AllDigits(t) /\ DigitsValue(t) \in 1..31
    \/ Len(t) = 1 /\ AllDigits(t) /\ DigitsValue(t) \in 1..9
    \/ Len(t) = 2 /\ t[1] = " " /\ IsDigit(t[2]) /\ DigitVal(t[2]) \in 1..9

\* datetime.strptime(t, '%Y-%m-%d'): the date, or ValueError.  %Y is four
\* digits; %m and %d take one or two digits, so '2024-6-1' parses.
Strptime(t) ==
    LET rest == IF Len(t) > 5 THEN SubSeq(t, 6, Len(t)) ELSE <<>>
        dash == IndexOf(rest, "-")
        mm == IF dash > 0 THEN SubSeq(rest, 1, dash - 1) ELSE <<>>
        dd == IF dash > 0 THEN SubSeq(rest, dash + 1, Len(rest)) ELSE <<>>
        y == DigitsValue(SubSeq(t, 1, 4))
        m == DigitsValue(mm)
        d == DigitsValue(IF dd # <<>> /\ dd[1] = " " THEN Tail(dd) ELSE dd)
    IN  IF /\ Len(t) > 5
           /\ AllDigits(SubSeq(t, 1, 4))
           /\ t[5] = "-"
           /\ dash > 0
           /\ MonthToken(mm)
           /\ DayToken(dd)
           /\ y >= 1
           /\ d <= DaysInMonth(y, m)
        THEN [exc |-> "none", val |-> [y |-> y, m |-> m, d |-> d]]
        ELSE [exc |-> "ValueError", val |-> [y |-> 0, m |-> 0, d |-> 0]]

\* zero-padded decimal of width w
RECURSIVE PadZero(_, _)
PadZero(t, w) == IF Len(t) >= w THEN t ELSE PadZero(<<"0">> \o t, w)

\* date.strftime('%Y-%m-%d')
Strftime(date) ==
    PadZero(NatToText(date.y), 4) \o <<"-">> \o PadZero(NatToText(date.m), 2)
        \o <<"-">> \o PadZero(NatToText(date.d), 2)

PrevDay(date) ==
    IF date.d > 1 THEN [date EXCEPT !.d = @ - 1]
    ELSE IF date.m > 1
    THEN [y |-> date.y, m |-> date.m - 1, d |-> DaysInMonth(date.y, date.m - 1)]
    ELSE [y |-> date.y - 1, m |-> 12, d |-> 31]

\* date - timedelta(days=k)
RECURSIVE MinusDays(_, _)
MinusDays(date, k) == IF k = 0 THEN date ELSE MinusDays(PrevDay(date), k - 1)

\* datetime.today(): the day on which the turns run
Today == [y |-> 2024, m |-> 6, d |-> 1]

(***************************************************************************)
(* Ledger aggregator                                                       *)
(***************************************************************************)
CREDITO == <<"c", "r", "é", "d", "i", "t", "o">>
DEBITO == <<"d", "é", "b", "i", "t", "o">>

\* one pass of the loop body of calcular_saldo_desde_movimientos on a data
\* row: the signed amount it adds, 0 for a row it skips, or the exception
\* that leaves the loop (only ValueError and IndexError are caught inside).
SaldoRowEffect(row) ==
    IF Len(row) > 2
    THEN LET movimiento_tipo == Lower(Strip(row[1]))
             monto_str == RemoveChar(Strip(row[3]), ",")
             monto == PyIntOfFloat(monto_str)
         IN  IF monto.exc = "ValueError" THEN Ok(0)
             ELSE IF monto.exc # "none" THEN monto
             ELSE IF movimiento_tipo = CREDITO THEN Ok(monto.val)
             ELSE IF movimiento_tipo = DEBITO THEN Ok(0 - monto.val)
             ELSE Ok(0)
    ELSE Ok(0)

RECURSIVE SaldoLoop(_, _, _)
\* the for loop from row_index i on, with saldo_actual = acc
SaldoLoop(data, i, acc) ==
    IF i > Len(data) THEN Ok(acc)
    ELSE IF i = 1 THEN SaldoLoop(data, i + 1, acc)
    ELSE LET e == SaldoRowEffect(data[i])
         IN  IF e.exc # "none" THEN e ELSE SaldoLoop(data, i + 1, acc + e.val)

\* calcular_saldo_desde_movimientos(sheet_object), given what
\* sheet_object.get_all_values() does: returns data, or raises (ok = FALSE)
calcular_saldo_desde_movimientos(data, ok) ==
    IF ~ok THEN 0
    ELSE IF Len(data) < 2 THEN 0
    ELSE LET r == SaldoLoop(data, 1, 0)
         IN  IF r.exc = "none" THEN r.val ELSE 0

NA == <<"N", "/", "A">>
SIN_DESCRIPCION == <<"S", "i", "n", " ", "d", "e", "s", "c", "r", "i", "p", "c", "i", "ó", "n">>
FECHA_DESCONOCIDA ==
    <<"F", "e", "c", "h", "a", " ", "d", "e", "s", "c", "o", "n", "o", "c", "i", "d", "a">>
MONTO_ERROR == <<"E", "r", "r", "o", "r">>

\* the body of the for loop of obtener_ultimos_movimientos on one row: the
\* formatted entry, or the exception that leaves the loop
FormatMove(move) ==
    LET movimiento == IF Len(move) > 0 THEN Upper(move[1]) ELSE NA
        descripcion == IF Len(move) > 1 THEN move[2] ELSE SIN_DESCRIPCION
        parsed == IF Len(move) > 2 /\ Strip(move[3]) # <<>>
                  THEN PyIntOfFloat(move[3]) ELSE Ok(0)
        monto_val_formatted ==
            IF parsed.exc = "ValueError" THEN MONTO_ERROR ELSE FormatThousands(parsed.val)
        fecha == IF Len(move) > 3 THEN move[4] ELSE FECHA_DESCONOCIDA
    IN  [exc |-> IF parsed.exc = "ValueError" THEN "none" ELSE parsed.exc,
         val |-> <<fecha, movimiento, monto_val_formatted, descripcion>>]

\* s[-n:] of a Python list
LastSlice(s, n) ==
    IF n = 0 \/ n >= Len(s) THEN s ELSE SubSeq(s, Len(s) - n + 1, Len(s))

\* s[::-1]
Reverse(s) == [i \in 1..Len(s) |-> s[Len(s) + 1 - i]]

\* obtener_ultimos_movimientos(sheet_object, num_movimientos)
obtener_ultimos_movimientos(data, ok, n) ==
    IF ~ok THEN <<>>
    ELSE IF Len(data) < 2 THEN <<>>
    ELSE LET recent_moves == Reverse(LastSlice(Tail(data), n))
             formatted == [i \in 1..Len(recent_moves) |-> FormatMove(recent_moves[i])]
         IN  IF \E i \in 1..Len(formatted) : formatted[i].exc # "none"
             THEN <<>>
             ELSE [i \in 1..Len(formatted) |-> formatted[i].val]

(***************************************************************************)
(* Configuration and conversation states                                   *)
(***************************************************************************)
SHEET_NAME_PERSONAL == "Personal-Cris"
SHEET_NAME_NEGOCIOS == "Negocios"
SheetNames == {SHEET_NAME_PERSONAL, SHEET_NAME_NEGOCIOS}

MENU_PRINCIPAL == 0
TIPO_CUENTA == 1
TIPO_MOVIMIENTO == 2
DESCRIPCION == 3
MONTO == 4
FECHA == 5
VER_SALDO_SELECCION_CUENTA == 6
VER_ULTIMOS_MOVIMIENTOS_SELECCION_CUENTA == 7
\* ConversationHandler.END: the conversation's key is dropped
END == -1

VOLVER_AL_MENU_OPTION == <<"0">>
FINALIZAR_SESION_OPTION == <<"5">>

\* num_movimientos of the call in ver_ultimos_movimientos_seleccion_cuenta
HISTORIAL_NUM_MOVIMIENTOS == 10

predefined_amounts_str ==
    {<<"1", "0", "0", "0", "0">>, <<"2", "0", "0", "0", "0">>, <<"5", "0", "0", "0", "0">>}

(***************************************************************************)
(* context.user_data: a dict with the keys "temp_data" (itself a dict) and *)
(* "selected_sheet".  A dict is its set of present keys plus the values;   *)
(* the value of an absent key is kept at a fixed default.                  *)
(***************************************************************************)
EmptyTemp ==
    [keys |-> {}, account_name |-> "", movimiento |-> <<>>, descripcion |-> <<>>,
     monto |-> 0, fecha |-> <<>>]

EmptyUserData == [keys |-> {}, temp_data |-> EmptyTemp, selected_sheet |-> "None"]

\* context.user_data.pop(key, None)
Pop(ud, key) ==
    IF key = "temp_data"
    THEN [ud EXCEPT !.keys = @ \ {"temp_data"}, !.temp_data = EmptyTemp]
    ELSE [ud EXCEPT !.keys = @ \ {"selected_sheet"}, !.selected_sheet = "None"]

\* context.user_data.setdefault("temp_data", {})[key] = value
SetTemp(ud, key, value) ==
    [ud EXCEPT !.keys = @ \cup {"temp_data"},
               !.temp_data = [[@ EXCEPT !.keys = @ \cup {key}] EXCEPT ![key] = value]]

\* a reply_text call: what is said, and the account, balance and table in it
Reply(kind) == [kind |-> kind, cuenta |-> "", saldo |-> 0, filas |-> <<>>]
ReplySaldo(kind, cuenta, saldo) == [kind |-> kind, cuenta |-> cuenta, saldo |-> saldo, filas |-> <<>>]
ReplyTabla(kind, cuenta, filas) == [kind |-> kind, cuenta |-> cuenta, saldo |-> 0, filas |-> filas]

\* what a handler leaves behind: the state it returns, user_data, its replies
Out(state, ud, rs) == [state |-> state, ud |-> ud, replies |-> rs]

(***************************************************************************)
(* Row store: the two worksheets                                           *)
(***************************************************************************)
\* RowData with the amount written as it is shown to the user, "$5,000"
RowDataMontoFormateado(data) ==
    <<data.movimiento, data.descripcion,
      IF "monto" \in data.keys THEN <<"$">> \o FormatThousands(data.monto) ELSE <<>>,
      data.fecha>>

\* guardar_en_sheet builds row_data with data.get(key, ""); the int monto
\* comes back from get_all_values() as its decimal text
RowData(data) ==
    <<data.movimiento, data.descripcion,
      IF "monto" \in data.keys THEN IntToText(data.monto) ELSE <<>>,
      data.fecha>>

\* guardar_en_sheet writing the row right below the header row
guardar_en_sheet_bajo_encabezado(rows, data, ok) ==
    IF ok THEN <<Head(rows), RowData(data)>> \o Tail(rows) ELSE rows

\* guardar_en_sheet with the row written although append_row raised
guardar_en_sheet_pese_al_error(rows, data, ok) == Append(rows, RowData(data))

\* guardar_en_sheet(sheet_object, data): append_row, or the exception it
\* raises (ok = FALSE) is caught and the sheet stays as it was
guardar_en_sheet(rows, data, ok) == IF ok THEN Append(rows, RowData(data)) ELSE rows

(***************************************************************************)
(* Conversation handlers                                                   *)
(***************************************************************************)
salir_sesion(ud) == Out(END, EmptyUserData, <<Reply("sesion_finalizada")>>)

start(ud) ==
    Out(MENU_PRINCIPAL,
        [keys |-> {"temp_data", "selected_sheet"}, temp_data |-> EmptyTemp,
         selected_sheet |-> "None"],
        <<Reply("bienvenida")>>)

volver_al_menu(ud) ==
    LET cleared == Pop(Pop(ud, "temp_data"), "selected_sheet")
        s == start(cleared)
    IN  Out(s.state, s.ud, <<Reply("volviendo")>> \o s.replies)

\* menu_principal with the choice 3 taken as a balance request
menu_principal_historial_como_saldo(ud, text) ==
    LET opcion == Strip(text)
    IN  IF opcion = FINALIZAR_SESION_OPTION THEN salir_sesion(ud)
        ELSE IF opcion = <<"1">> THEN Out(TIPO_CUENTA, ud, <<Reply("pedir_cuenta_registro")>>)
        ELSE IF opcion \in {<<"2">>, <<"3">>}
        THEN Out(VER_SALDO_SELECCION_CUENTA, ud, <<Reply("pedir_cuenta_saldo")>>)
        ELSE Out(MENU_PRINCIPAL, ud, <<Reply("opcion_invalida")>>)

menu_principal(ud, text) ==
    LET opcion == Strip(text)
    IN  IF opcion = FINALIZAR_SESION_OPTION THEN salir_sesion(ud)
        ELSE IF opcion = <<"1">> THEN Out(TIPO_CUENTA, ud, <<Reply("pedir_cuenta_registro")>>)
        ELSE IF opcion = <<"2">>
        THEN Out(VER_SALDO_SELECCION_CUENTA, ud, <<Reply("pedir_cuenta_saldo")>>)
        ELSE IF opcion = <<"3">>
        THEN Out(VER_ULTIMOS_MOVIMIENTOS_SELECCION_CUENTA, ud,
                 <<Reply("pedir_cuenta_historial")>>)
        ELSE Out(MENU_PRINCIPAL, ud, <<Reply("opcion_invalida")>>)

\* the account an option selects, "None" when it selects none
CuentaDeOpcion(opcion) ==
    IF opcion = <<"1">> THEN SHEET_NAME_PERSONAL
    ELSE IF opcion = <<"2">> THEN SHEET_NAME_NEGOCIOS
    ELSE "None"

\* tipo_cuenta going straight on to DESCRIPCION, past the direction
tipo_cuenta_sin_tipo_movimiento(ud, text) ==
    LET opcion == Strip(text)
        account_name == CuentaDeOpcion(opcion)
    IN  IF account_name = "None"
        THEN Out(TIPO_CUENTA, ud, <<Reply("opcion_invalida")>>)
        ELSE Out(DESCRIPCION,
                 SetTemp([ud EXCEPT !.keys = @ \cup {"selected_sheet"},
                                    !.selected_sheet = account_name],
                         "account_name", account_name),
                 <<Reply("pedir_descripcion")>>)

tipo_cuenta(ud, text) ==
    LET opcion == Strip(text)
        account_name == CuentaDeOpcion(opcion)
    IN  IF account_name = "None"
        THEN Out(TIPO_CUENTA, ud, <<Reply("opcion_invalida")>>)
        ELSE Out(TIPO_MOVIMIENTO,
                 SetTemp([ud EXCEPT !.keys = @ \cup {"selected_sheet"},
                                    !.selected_sheet = account_name],
                         "account_name", account_name),
                 <<Reply("pedir_tipo_movimiento")>>)

MOV_CREDITO == <<"C", "r", "é", "d", "i", "t", "o">>
MOV_DEBITO == <<"D", "é", "b", "i", "t", "o">>

\* tipo_movimiento going on to DESCRIPCION whatever the option
tipo_movimiento_sin_validar(ud, text) ==
    LET opcion == Strip(text)
    IN  IF opcion = <<"1">>
        THEN Out(DESCRIPCION, SetTemp(ud, "movimiento", MOV_CREDITO),
                 <<Reply("pedir_descripcion")>>)
        ELSE IF opcion = <<"2">>
        THEN Out(DESCRIPCION, SetTemp(ud, "movimiento", MOV_DEBITO),
                 <<Reply("pedir_descripcion")>>)
        ELSE Out(DESCRIPCION, ud, <<Reply("pedir_descripcion")>>)

tipo_movimiento(ud, text) ==
    LET opcion == Strip(text)
    IN  IF opcion = <<"1">>
        THEN Out(DESCRIPCION, SetTemp(ud, "movimiento", MOV_CREDITO),
                 <<Reply("pedir_descripcion")>>)
        ELSE IF opcion = <<"2">>
        THEN Out(DESCRIPCION, SetTemp(ud, "movimiento", MOV_DEBITO),
                 <<Reply("pedir_descripcion")>>)
        ELSE Out(TIPO_MOVIMIENTO, ud, <<Reply("opcion_invalida")>>)

\* descripcion going on to MONTO with nothing stored
descripcion_sin_guardar(ud, text) == Out(MONTO, ud, <<Reply("pedir_monto")>>)

descripcion(ud, text) ==
    Out(MONTO, SetTemp(ud, "descripcion", text), <<Reply("pedir_monto")>>)

\* re.match(r'^-?\d+', t): the matched prefix, <<>> when there is no match
RECURSIVE DigitRun(_)
DigitRun(t) == IF t # <<>> /\ IsDigit(t[1]) THEN <<t[1]>> \o DigitRun(Tail(t)) ELSE <<>>

MatchIntPrefix(t) ==
    IF t # <<>> /\ t[1] = "-"
    THEN (IF DigitRun(Tail(t)) # <<>> THEN <<"-">> \o DigitRun(Tail(t)) ELSE <<>>)
    ELSE DigitRun(t)

\* the try block of monto: the int it computes, or ValueError
MontoValor(monto_str_input) ==
    IF monto_str_input \in predefined_amounts_str THEN PyInt(monto_str_input)
    ELSE LET cleaned_monto_str == RemoveChar(RemoveChar(monto_str_input, "$"), ",")
             match == MatchIntPrefix(cleaned_monto_str)
         IN  PyInt(IF match # <<>> THEN match ELSE cleaned_monto_str)

monto(ud, text) ==
    LET monto_valor == MontoValor(Strip(text))
    IN  IF monto_valor.exc # "none" THEN Out(MONTO, ud, <<Reply("monto_invalido")>>)
        ELSE IF monto_valor.val <= 0 THEN Out(MONTO, ud, <<Reply("monto_no_positivo")>>)
        ELSE Out(FECHA, SetTemp(ud, "monto", monto_valor.val), <<Reply("pedir_fecha")>>)

HOY == <<"h", "o", "y">>
AYER == <<"a", "y", "e", "r">>
ANTEAYER == <<"a", "n", "t", "e", "a", "y", "e", "r">>

\* the date text fecha stores for an input, or ValueError
FechaAGuardar(fecha_str_input) ==
    IF Lower(fecha_str_input) = HOY THEN Ok(Strftime(Today))
    ELSE IF Lower(fecha_str_input) = AYER THEN Ok(Strftime(MinusDays(Today, 1)))
    ELSE IF Lower(fecha_str_input) = ANTEAYER THEN Ok(Strftime(MinusDays(Today, 2)))
    ELSE IF Strptime(fecha_str_input).exc = "none" THEN Ok(fecha_str_input)
    ELSE Raise("ValueError")

\* fecha up to its call of guardar_en_sheet, for an input it accepts:
\* user_data with the date stored in temp_data
fecha_hasta_guardar(ud, text) == SetTemp(ud, "fecha", FechaAGuardar(Strip(text)).val)

\* fecha_tras_guardar with the balance of the rows above the last one, as if
\* the rows had been read before the append
fecha_tras_guardar_saldo_previo(ud, rows, rd) ==
    Out(MENU_PRINCIPAL,
        Pop(Pop(ud, "temp_data"), "selected_sheet"),
        <<ReplySaldo("movimiento_registrado",
                     IF "account_name" \in ud.temp_data.keys
                     THEN ud.temp_data.account_name ELSE "la cuenta seleccionada",
                     calcular_saldo_desde_movimientos(SubSeq(rows, 1, Len(rows) - 1), rd))>>)

\* fecha after guardar_en_sheet has returned: the balance of the rows that
\* get_all_values returns (rd) or of its failure, the two pops, the reply
fecha_tras_guardar(ud, rows, rd) ==
    Out(MENU_PRINCIPAL,
        Pop(Pop(ud, "temp_data"), "selected_sheet"),
        <<ReplySaldo("movimiento_registrado",
                     IF "account_name" \in ud.temp_data.keys
                     THEN ud.temp_data.account_name ELSE "la cuenta seleccionada",
                     calcular_saldo_desde_movimientos(rows, rd))>>)

\* fecha without the two pops after the movement is stored
fecha_sin_limpiar(ud, sh, text, ap, rd) ==
    LET fecha_a_guardar == FechaAGuardar(Strip(text))
        with_fecha == SetTemp(ud, "fecha", fecha_a_guardar.val)
        selected == with_fecha.selected_sheet
        stored == [sh EXCEPT ![selected] = guardar_en_sheet(@, with_fecha.temp_data, ap)]
    IN  IF fecha_a_guardar.exc # "none"
        THEN [out |-> Out(FECHA, ud, <<Reply("fecha_invalida")>>), sheets |-> sh,
              errors |-> {}]
        ELSE IF selected = "None"
        THEN [out |-> Out(END, with_fecha, <<Reply("error_sin_cuenta")>>), sheets |-> sh,
              errors |-> {}]
        ELSE [out |-> Out(MENU_PRINCIPAL, with_fecha,
                          <<ReplySaldo("movimiento_registrado", selected,
                                       calcular_saldo_desde_movimientos(stored[selected], rd))>>),
              sheets |-> stored,
              errors |-> (IF ap THEN {} ELSE {"append_row"})
                             \cup (IF rd THEN {} ELSE {"get_all_values"})]

\* fecha: ap / rd tell whether append_row / get_all_values return (TRUE) or
\* raise (FALSE).  The result carries the sheets and the calls that raised.
fecha(ud, sh, text, ap, rd) ==
    LET fecha_a_guardar == FechaAGuardar(Strip(text))
        with_fecha == fecha_hasta_guardar(ud, text)
        selected == with_fecha.selected_sheet
        stored == [sh EXCEPT ![selected] = guardar_en_sheet(@, with_fecha.temp_data, ap)]
    IN  IF fecha_a_guardar.exc # "none"
        THEN [out |-> Out(FECHA, ud, <<Reply("fecha_invalida")>>), sheets |-> sh,
              errors |-> {}]
        ELSE IF selected = "None"
        THEN [out |-> Out(END, with_fecha, <<Reply("error_sin_cuenta")>>), sheets |-> sh,
              errors |-> {}]
        ELSE [out |-> fecha_tras_guardar(with_fecha, stored[selected], rd),
              sheets |-> stored,
              errors |-> (IF ap THEN {} ELSE {"append_row"})
                             \cup (IF rd THEN {} ELSE {"get_all_values"})]

\* ver_saldo_seleccion_cuenta without the return of its invalid-option branch
ver_saldo_sin_return(ud, sh, text, rd) ==
    LET account_name == CuentaDeOpcion(Strip(text))
        s == start(ud)
    IN  IF account_name = "None"
        THEN [out |-> Out(s.state, s.ud, <<Reply("opcion_invalida")>> \o s.replies),
              errors |-> {}]
        ELSE [out |-> Out(s.state, s.ud,
                          <<ReplySaldo("saldo", account_name,
                                       calcular_saldo_desde_movimientos(sh[account_name], rd))>>
                              \o s.replies),
              errors |-> IF rd THEN {} ELSE {"get_all_values"}]

ver_saldo_seleccion_cuenta(ud, sh, text, rd) ==
    LET account_name == CuentaDeOpcion(Strip(text))
        saldo == calcular_saldo_desde_movimientos(sh[account_name], rd)
        s == start(ud)
    IN  IF account_name = "None"
        THEN [out |-> Out(VER_SALDO_SELECCION_CUENTA, ud, <<Reply("opcion_invalida")>>),
              errors |-> {}]
        ELSE [out |-> Out(s.state, s.ud,
                          <<ReplySaldo("saldo", account_name, saldo)>> \o s.replies),
              errors |-> IF rd THEN {} ELSE {"get_all_values"}]

ver_ultimos_movimientos_seleccion_cuenta(ud, sh, text, rd) ==
    LET account_name == CuentaDeOpcion(Strip(text))
        ultimos_movimientos_data ==
            obtener_ultimos_movimientos(sh[account_name], rd, HISTORIAL_NUM_MOVIMIENTOS)
        s == start(ud)
    IN  IF account_name = "None"
        THEN [out |-> Out(VER_ULTIMOS_MOVIMIENTOS_SELECCION_CUENTA, ud,
                          <<Reply("opcion_invalida")>>),
              errors |-> {}]
        ELSE [out |-> Out(s.state, s.ud,
                          <<IF ultimos_movimientos_data # <<>>
                            THEN ReplyTabla("historial", account_name, ultimos_movimientos_data)
                            ELSE ReplyTabla("sin_movimientos", account_name, <<>>)>>
                              \o s.replies),
              errors |-> IF rd THEN {} ELSE {"get_all_values"}]

(***************************************************************************)
(* ConversationHandler: which handler an update reaches                    *)
(***************************************************************************)
START_COMMAND == <<"/", "s", "t", "a", "r", "t">>

\* filters.COMMAND: the text starts with a bot command
IsCommand(text) == text # <<>> /\ text[1] = "/"

\* CommandHandler("start", ...): the command is /start, with or without arguments
IsStartCommand(text) ==
    \/ text = START_COMMAND
    \/ Len(text) > 6 /\ SubSeq(text, 1, 6) = START_COMMAND /\ text[7] = " "

\* the handler of a state's list after the volver_al_menu entry
StateHandler(state) ==
    IF state = TIPO_CUENTA THEN "tipo_cuenta"
    ELSE IF state = TIPO_MOVIMIENTO THEN "tipo_movimiento"
    ELSE IF state = DESCRIPCION THEN "descripcion"
    ELSE IF state = MONTO THEN "monto"
    ELSE IF state = FECHA THEN "fecha"
    ELSE IF state = VER_SALDO_SELECCION_CUENTA THEN "ver_saldo_seleccion_cuenta"
    ELSE "ver_ultimos_movimientos_seleccion_cuenta"

\* HandlerFor with the state's own handler listed before volver_al_menu
HandlerForStateHandlerFirst(state, text) ==
    IF state = END
    THEN (IF IsStartCommand(text) \/ ~IsCommand(text) THEN "start" ELSE "none")
    ELSE IF IsCommand(text)
    THEN (IF IsStartCommand(text) THEN "start" ELSE "none")
    ELSE IF state = MENU_PRINCIPAL THEN "menu_principal"
    ELSE StateHandler(state)

\* HandlerFor with the /start command as the only entry point
HandlerForSoloComando(state, text) ==
    IF state = END
    THEN (IF IsStartCommand(text) THEN "start" ELSE "none")
    ELSE IF IsCommand(text)
    THEN (IF IsStartCommand(text) THEN "start" ELSE "none")
    ELSE IF state = MENU_PRINCIPAL THEN "menu_principal"
    ELSE IF text = VOLVER_AL_MENU_OPTION THEN "volver_al_menu"
    ELSE StateHandler(state)

\* HandlerFor with the exit choice taken by menu_principal in every state
HandlerForSalidaEnTodoEstado(state, text) ==
    IF state = END
    THEN (IF IsStartCommand(text) \/ ~IsCommand(text) THEN "start" ELSE "none")
    ELSE IF IsCommand(text)
    THEN (IF IsStartCommand(text) THEN "start" ELSE "none")
    ELSE IF state = MENU_PRINCIPAL \/ text = FINALIZAR_SESION_OPTION THEN "menu_principal"
    ELSE IF text = VOLVER_AL_MENU_OPTION THEN "volver_al_menu"
    ELSE StateHandler(state)

\* the first handler that takes the update: the entry points when there is
\* no conversation, else the state's handlers in order, then the fallbacks;
\* "none" when no handler takes it
HandlerFor(state, text) ==
    IF state = END
    THEN (IF IsStartCommand(text) \/ ~IsCommand(text) THEN "start" ELSE "none")
    ELSE IF IsCommand(text)
    THEN (IF IsStartCommand(text) THEN "start" ELSE "none")
    ELSE IF state = MENU_PRINCIPAL THEN "menu_principal"
    ELSE IF text = VOLVER_AL_MENU_OPTION THEN "volver_al_menu"
    ELSE StateHandler(state)

(***************************************************************************)
(* State, inputs and bounds                                                *)
(***************************************************************************)
\* a conversation is keyed by (chat id, user id); user_data by user id
Conversations == {<<1, 1>>, <<2, 1>>, <<3, 2>>}
SingleConversation == {<<1, 1>>}
Users == {c[2] : c \in Conversations}
UserOf(c) == c[2]

HEADER ==
    <<<<"M", "o", "v", "i", "m", "i", "e", "n", "t", "o">>,
      <<"D", "e", "s", "c", "r", "i", "p", "c", "i", "ó", "n">>,
      <<"M", "o", "n", "t", "o">>,
      <<"F", "e", "c", "h", "a">>>>

CAFE == <<"c", "a", "f", "e">>
FECHA_ANTERIOR == <<"2", "0", "2", "4", "-", "0", "1", "-", "0", "1">>

\* the worksheets when the bot starts: the header row, and in one of them a
\* movement recorded earlier
InitialSheets ==
    [a \in SheetNames |->
        IF a = SHEET_NAME_PERSONAL
        THEN <<HEADER, <<MOV_CREDITO, CAFE, <<"5", "0", "0", "0">>, FECHA_ANTERIOR>>>>
        ELSE <<HEADER>>]

\* rows appended by the bot so far
Appended(sh) ==
    (Len(sh[SHEET_NAME_PERSONAL]) - Len(InitialSheets[SHEET_NAME_PERSONAL]))
        + (Len(sh[SHEET_NAME_NEGOCIOS]) - Len(InitialSheets[SHEET_NAME_NEGOCIOS]))

\* bound: rows the bot appends in a behaviour
MaxRows == 1

OTHER_COMMAND == <<"/", "x">>

MenuInputs ==
    {<<"0">>, <<"1">>, <<"2">>, <<"3">>, <<"5">>, <<" ", "1">>,
     START_COMMAND, OTHER_COMMAND}

DescripcionInputs == {<<"0">>, <<"5">>, <<" ">>, START_COMMAND}

MontoInputs ==
    {<<"0">>, <<"5">>, <<"$", "1", "0", ",", "0", "0", "0">>, <<"-", "5">>,
     <<"a", "b", "c">>, <<"5", "a", "b", "c">>, <<"5", ".", "5">>,
     <<"1", "0", "0", "0", "0">>, START_COMMAND}

FechaInputs ==
    {<<"0">>, <<"5">>, HOY, Upper(ANTEAYER),
     <<"2", "0", "2", "4", "-", "1", "3", "-", "4", "0">>,
     <<"2", "0", "2", "4", "-", "6", "-", "1">>,
     START_COMMAND}

\* the messages a user sends in a state
InputsIn(state) ==
    IF state = DESCRIPCION THEN DescripcionInputs
    ELSE IF state = MONTO THEN MontoInputs
    ELSE IF state = FECHA THEN FechaInputs
    ELSE MenuInputs

NoUpdate == [conv |-> <<0, 0>>, text |-> <<>>]

Init ==
    /\ conv_state = [c \in Conversations |-> END]
    /\ user_data = [u \in Users |-> EmptyUserData]
    /\ sheets = InitialSheets
    /\ update = NoUpdate
    /\ replies = <<>>
    /\ store_error = {}
    /\ trail = [c \in Conversations |-> <<>>]
    /\ all_data = <<>>
    /\ num_movimientos = 0
    /\ read_ok = TRUE
    /\ saldo_out = 0
    /\ movs_out = <<>>
    /\ pc = "conv"

(***************************************************************************)
(* One turn: an update reaches a handler, which replies and returns the    *)
(* next state                                                              *)
(***************************************************************************)
\* the trail after a turn of handler from state to next: emptied on reaching
\* the main menu or the end, longer by the handler when the state moves on,
\* the same when the state is retried
Trail(tr, state, next, handler) ==
    IF next \in {MENU_PRINCIPAL, END} THEN <<>>
    ELSE IF next = state THEN tr
    ELSE Append(tr, handler)

Apply(c, text, out, sh, errors) ==
    /\ conv_state' = [conv_state EXCEPT ![c] = out.state]
    /\ user_data' = [user_data EXCEPT ![UserOf(c)] = out.ud]
    /\ sheets' = sh
    /\ update' = [conv |-> c, text |-> text]
    /\ replies' = out.replies
    /\ store_error' = errors
    /\ trail' = [trail EXCEPT ![c] = Trail(@, conv_state[c], out.state,
                                           HandlerFor(conv_state[c], text))]
    /\ UNCHANGED <<aggVars, pc>>

Start(c, text) ==
    /\ pc = "conv"
    /\ HandlerFor(conv_state[c], text) = "start"
    /\ \E o \in {start(user_data[UserOf(c)])} : Apply(c, text, o, sheets, {})

\* a new movement is started only while the bound on appended rows allows it
MenuPrincipal(c, text) ==
    /\ pc = "conv"
    /\ HandlerFor(conv_state[c], text) = "menu_principal"
    /\ Strip(text) = <<"1">> => Appended(sheets) < MaxRows
    /\ \E o \in {menu_principal(user_data[UserOf(c)], text)} : Apply(c, text, o, sheets, {})

VolverAlMenu(c, text) ==
    /\ pc = "conv"
    /\ HandlerFor(conv_state[c], text) = "volver_al_menu"
    /\ \E o \in {volver_al_menu(user_data[UserOf(c)])} : Apply(c, text, o, sheets, {})

TipoCuenta(c, text) ==
    /\ pc = "conv"
    /\ HandlerFor(conv_state[c], text) = "tipo_cuenta"
    /\ \E o \in {tipo_cuenta(user_data[UserOf(c)], text)} : Apply(c, text, o, sheets, {})

TipoMovimiento(c, text) ==
    /\ pc = "conv"
    /\ HandlerFor(conv_state[c], text) = "tipo_movimiento"
    /\ \E o \in {tipo_movimiento(user_data[UserOf(c)], text)} : Apply(c, text, o, sheets, {})

Descripcion(c, text) ==
    /\ pc = "conv"
    /\ HandlerFor(conv_state[c], text) = "descripcion"
    /\ \E o \in {descripcion(user_data[UserOf(c)], text)} : Apply(c, text, o, sheets, {})

Monto(c, text) ==
    /\ pc = "conv"
    /\ HandlerFor(conv_state[c], text) = "monto"
    /\ \E o \in {monto(user_data[UserOf(c)], text)} : Apply(c, text, o, sheets, {})

\* whether fecha gets as far as the worksheet calls
FechaReachesStore(ud, text) ==
    FechaAGuardar(Strip(text)).exc = "none" /\ ud.selected_sheet # "None"

\* what a worksheet call may do when it is made: return (TRUE) or raise (FALSE)
StoreOutcomes(called) == IF called THEN BOOLEAN ELSE {TRUE}

Fecha(c, text) ==
    /\ pc = "conv"
    /\ HandlerFor(conv_state[c], text) = "fecha"
    /\ \E called \in {FechaReachesStore(user_data[UserOf(c)], text)} :
       \E ap \in StoreOutcomes(called), rd \in StoreOutcomes(called) :
       \E r \in {fecha(user_data[UserOf(c)], sheets, text, ap, rd)} :
          /\ Appended(r.sheets) <= MaxRows
          /\ \E o \in {r.out} : Apply(c, text, o, r.sheets, r.errors)

VerSaldoSeleccionCuenta(c, text) ==
    /\ pc = "conv"
    /\ HandlerFor(conv_state[c], text) = "ver_saldo_seleccion_cuenta"
    /\ \E rd \in StoreOutcomes(CuentaDeOpcion(Strip(text)) # "None") :
       \E r \in {ver_saldo_seleccion_cuenta(user_data[UserOf(c)], sheets, text, rd)} :
       \E o \in {r.out} : Apply(c, text, o, sheets, r.errors)

VerUltimosMovimientosSeleccionCuenta(c, text) ==
    /\ pc = "conv"
    /\ HandlerFor(conv_state[c], text) = "ver_ultimos_movimientos_seleccion_cuenta"
    /\ \E rd \in StoreOutcomes(CuentaDeOpcion(Strip(text)) # "None") :
       \E r \in {ver_ultimos_movimientos_seleccion_cuenta(
                     user_data[UserOf(c)], sheets, text, rd)} :
       \E o \in {r.out} : Apply(c, text, o, sheets, r.errors)

\* an update no handler takes (a command other than /start): nothing runs
Unhandled(c, text) ==
    /\ pc = "conv"
    /\ HandlerFor(conv_state[c], text) = "none"
    /\ update' = [conv |-> c, text |-> text]
    /\ replies' = <<>>
    /\ store_error' = {}
    /\ UNCHANGED <<conv_state, user_data, sheets, trail, aggVars, pc>>

\* one conversation: its user sends a message
Next ==
    \/ \E c \in SingleConversation : \E text \in InputsIn(conv_state[c]) : Start(c, text)
    \/ \E c \in SingleConversation : \E text \in InputsIn(conv_state[c]) : MenuPrincipal(c, text)
    \/ \E c \in SingleConversation : \E text \in InputsIn(conv_state[c]) : VolverAlMenu(c, text)
    \/ \E c \in SingleConversation : \E text \in InputsIn(conv_state[c]) : TipoCuenta(c, text)
    \/ \E c \in SingleConversation : \E text \in InputsIn(conv_state[c]) : TipoMovimiento(c, text)
    \/ \E c \in SingleConversation : \E text \in InputsIn(conv_state[c]) : Descripcion(c, text)
    \/ \E c \in SingleConversation : \E text \in InputsIn(conv_state[c]) : Monto(c, text)
    \/ \E c \in SingleConversation : \E text \in InputsIn(conv_state[c]) : Fecha(c, text)
    \/ \E c \in SingleConversation : \E text \in InputsIn(conv_state[c]) :
           VerSaldoSeleccionCuenta(c, text)
    \/ \E c \in SingleConversation : \E text \in InputsIn(conv_state[c]) :
           VerUltimosMovimientosSeleccionCuenta(c, text)
    \/ \E c \in SingleConversation : \E text \in InputsIn(conv_state[c]) : Unhandled(c, text)

Spec == Init /\ [][Next]_vars

(***************************************************************************)
(* The ledger aggregator on its own: calcular_saldo_desde_movimientos and  *)
(* obtener_ultimos_movimientos applied to the rows of a worksheet          *)
(***************************************************************************)
\* bound: data rows of a ledger whose rows are drawn freely from RowPool
MaxDataRows == 3
\* bound: data rows of a ledger of numbered movements
MaxNumberedRows == 12
\* bound: the limit num_movimientos
MaxLimit == 12

LIBRO == <<"l", "i", "b", "r", "o">>

\* rows a worksheet can hold: movements as the bot writes them, a movement
\* typed by hand, and rows that are not movements
RowPool ==
    {<<MOV_CREDITO, CAFE, <<"5", "0", "0", "0">>, FECHA_ANTERIOR>>,
     <<MOV_DEBITO, LIBRO, <<"2", "0", "0", "0">>, FECHA_ANTERIOR>>,
     <<<<" ", "C", "R", "É", "D", "I", "T", "O", " ">>, CAFE,
       <<" ", "1", ",", "0", "0", "0", ".", "9">>, FECHA_ANTERIOR>>,
     <<<<"o", "t", "r", "o">>, CAFE, <<"7">>, FECHA_ANTERIOR>>,
     <<MOV_CREDITO, CAFE>>,
     <<MOV_DEBITO, LIBRO, <<"a", "b", "c">>, FECHA_ANTERIOR>>,
     <<MOV_DEBITO, LIBRO, <<>>, FECHA_ANTERIOR>>,
     <<MOV_CREDITO, CAFE, <<"i", "n", "f">>, FECHA_ANTERIOR>>}

\* sequences over S of length at most n
SeqsUpTo(S, n) == UNION {[1..k -> S] : k \in 0..n}

\* the i-th of a run of numbered movements: its description is its number
NumberedRow(i) ==
    <<IF i % 2 = 1 THEN MOV_CREDITO ELSE MOV_DEBITO, NatToText(i), NatToText(i * 100),
      FECHA_ANTERIOR>>

NumberedLedger(n) == <<HEADER>> \o [i \in 1..n |-> NumberedRow(i)]

LedgerInputs ==
    {<<HEADER>> \o rows : rows \in SeqsUpTo(RowPool, MaxDataRows)}
        \cup {NumberedLedger(n) : n \in 0..MaxNumberedRows}

InitLedger ==
    /\ conv_state = [c \in Conversations |-> END]
    /\ user_data = [u \in Users |-> EmptyUserData]
    /\ sheets = InitialSheets
    /\ update = NoUpdate
    /\ replies = <<>>
    /\ store_error = {}
    /\ trail = [c \in Conversations |-> <<>>]
    /\ all_data \in LedgerInputs
    /\ num_movimientos \in 0..MaxLimit
    /\ read_ok \in BOOLEAN
    /\ saldo_out = 0
    /\ movs_out = <<>>
    /\ pc = "in"

CalcularSaldo ==
    /\ pc = "in"
    /\ saldo_out' = calcular_saldo_desde_movimientos(all_data, read_ok)
    /\ pc' = "saldo"
    /\ UNCHANGED <<convVars, all_data, num_movimientos, read_ok, movs_out>>

ObtenerUltimos ==
    /\ pc = "in"
    /\ movs_out' = obtener_ultimos_movimientos(all_data, read_ok, num_movimientos)
    /\ pc' = "movs"
    /\ UNCHANGED <<convVars, all_data, num_movimientos, read_ok, saldo_out>>

NextLedger == CalcularSaldo \/ ObtenerUltimos

SpecLedger == InitLedger /\ [][NextLedger]_vars

(***************************************************************************)
(* Properties                                                              *)
(***************************************************************************)
\* the conversation of Spec, its state and its session data
CONV == <<1, 1>>
Session == user_data[UserOf(CONV)]

\* inProgressMovement has no field set and selectedAccount is unset
Cleared(ud) == ud.temp_data.keys = {} /\ ud.selected_sheet = "None"

ErrorKinds == {"opcion_invalida", "monto_invalido", "monto_no_positivo", "fecha_invalida"}

\* the accepted set of a state as the specification's state table gives it:
\* menu choices, account and direction selectors, back to menu, a preset or
\* an integer literal greater than 0 once $ and , are removed, a date
\* keyword or a zero-padded YYYY-MM-DD calendar date
IsIntegerLiteralAmount(text) ==
    LET t == RemoveChar(RemoveChar(Strip(text), "$"), ",")
    IN  t # <<>> /\ AllDigits(t) /\ DigitsValue(t) > 0

IsIsoDate(text) ==
    LET t == Strip(text)
    IN  /\ Len(t) = 10
        /\ t[5] = "-" /\ t[8] = "-"
        /\ AllDigits(SubSeq(t, 1, 4)) /\ AllDigits(SubSeq(t, 6, 7)) /\ AllDigits(SubSeq(t, 9, 10))
        /\ DigitsValue(SubSeq(t, 1, 4)) >= 1
        /\ DigitsValue(SubSeq(t, 6, 7)) \in 1..12
        /\ DigitsValue(SubSeq(t, 9, 10)) \in
               1..DaysInMonth(DigitsValue(SubSeq(t, 1, 4)), DigitsValue(SubSeq(t, 6, 7)))

InAcceptedSet(state, text) ==
    IF state = MENU_PRINCIPAL
    THEN Strip(text) \in {<<"1">>, <<"2">>, <<"3">>, FINALIZAR_SESION_OPTION}
    ELSE \/ text = VOLVER_AL_MENU_OPTION
         \/ state \in {TIPO_CUENTA, TIPO_MOVIMIENTO, VER_SALDO_SELECCION_CUENTA,
                       VER_ULTIMOS_MOVIMIENTOS_SELECCION_CUENTA}
                /\ Strip(text) \in {<<"1">>, <<"2">>}
         \/ state = DESCRIPCION
         \/ state = MONTO
                /\ (Strip(text) \in predefined_amounts_str \/ IsIntegerLiteralAmount(text))
         \/ state = FECHA
                /\ (Lower(Strip(text)) \in {HOY, AYER, ANTEAYER} \/ IsIsoDate(text))

\* C1: in MainMenu, the three account selections, DirectionSelect,
\* AmountEntry and DateEntry, a text message outside the state's accepted
\* set leaves the state, the selected account, the in-progress movement and
\* every ledger as they were, and is answered with an error reply.
C1_InvalidInputChangesNothing ==
    [][LET c == update'.conv
           text == update'.text
       IN  (/\ conv_state[c] \in {MENU_PRINCIPAL, TIPO_CUENTA, TIPO_MOVIMIENTO, MONTO, FECHA,
                                  VER_SALDO_SELECCION_CUENTA,
                                  VER_ULTIMOS_MOVIMIENTOS_SELECCION_CUENTA}
            /\ ~IsCommand(text)
            /\ ~InAcceptedSet(conv_state[c], text))
           => /\ conv_state'[c] = conv_state[c]
              /\ user_data' = user_data
              /\ sheets' = sheets
              /\ Len(replies') = 1
              /\ replies'[1].kind \in ErrorKinds]_vars

\* C2: the back-to-menu input, sent in any state other than MainMenu and
\* Terminal, leads to MainMenu with the in-progress movement and the
\* selected account cleared and every ledger unchanged; it is not stored as
\* a field value.
C2_BackToMenu ==
    [][LET c == update'.conv
       IN  (update'.text = VOLVER_AL_MENU_OPTION
                /\ conv_state[c] \notin {MENU_PRINCIPAL, END})
           => /\ conv_state'[c] = MENU_PRINCIPAL
              /\ Cleared(user_data'[UserOf(c)])
              /\ sheets' = sheets
              /\ replies'[1].kind = "volviendo"]_vars

\* C2 witness: a back-to-menu turn has just run and left the main menu with
\* the session data cleared
C2_Witness ==
    /\ update = [conv |-> CONV, text |-> VOLVER_AL_MENU_OPTION]
    /\ Len(replies) = 2 /\ replies[1].kind = "volviendo"
    /\ conv_state[CONV] = MENU_PRINCIPAL
    /\ Cleared(Session)

\* the rows of a ledger that the bot appended
AppendedRows(a) == SubSeq(sheets[a], Len(InitialSheets[a]) + 1, Len(sheets[a]))

\* a row with the four fields of a movement: a direction, a description as
\* entered in DescriptionEntry, an integer amount greater than 0, and a date
\* that DateEntry accepts
CompleteRow(row) ==
    /\ Len(row) = 4
    /\ row[1] \in {MOV_CREDITO, MOV_DEBITO}
    /\ row[2] # <<>> /\ row[2] \in DescripcionInputs
    /\ row[3] # <<>> /\ AllDigits(row[3]) /\ DigitsValue(row[3]) > 0
    /\ row[4] # <<>> /\ Strptime(row[4]).exc = "none"

RowAmount(row) ==
    IF Len(row) > 2 THEN PyIntOfFloat(RemoveChar(Strip(row[3]), ",")) ELSE Raise("IndexError")

SignedAmount(row) ==
    IF RowAmount(row).exc # "none" THEN 0
    ELSE IF Lower(Strip(row[1])) = CREDITO THEN RowAmount(row).val
    ELSE IF Lower(Strip(row[1])) = DEBITO THEN 0 - RowAmount(row).val
    ELSE 0

RECURSIVE SumSigned(_)
SumSigned(rows) == IF rows = <<>> THEN 0 ELSE SignedAmount(Head(rows)) + SumSigned(Tail(rows))

\* C4: for a ledger whose first row is the header, the balance is the sum of
\* the amounts of the well-formed credit rows minus that of the well-formed
\* debit rows, the header never counted (0 for the header alone, 3000 for a
\* credit of 5000 and a debit of 2000).
C4_BalanceIsCreditsMinusDebits ==
    (pc = "saldo" /\ read_ok) => saldo_out = SumSigned(Tail(all_data))

\* a row the aggregation must skip: too few columns, or an amount that does
\* not convert to an integer
Malformed(row) == RowAmount(row).exc # "none"

RemoveAt(s, i) == SubSeq(s, 1, i - 1) \o SubSeq(s, i + 1, Len(s))

\* C5: a malformed row is skipped: the balance of a ledger equals the
\* balance of the ledger without that row.
C5_MalformedRowSkipped ==
    (pc = "saldo" /\ read_ok)
        => \A i \in 2..Len(all_data) :
               Malformed(all_data[i])
                   => saldo_out = calcular_saldo_desde_movimientos(RemoveAt(all_data, i), TRUE)

Min(a, b) == IF a < b THEN a ELSE b

\* C6: the recent movements are at most num_movimientos entries, the last
\* data rows in reverse storage order, newest first; none when there is no
\* data row.
C6_RecentMovements ==
    (pc = "movs" /\ read_ok)
        => LET rows == Tail(all_data)
               n == Len(rows)
           IN  /\ Len(movs_out) = Min(num_movimientos, n)
               /\ \A i \in 1..Len(movs_out) : movs_out[i] = FormatMove(rows[n + 1 - i]).val

\* C7: a movement collected through the four entry states and appended
\* changes the balance computed from the ledger by exactly its amount, added
\* for a credit and subtracted for a debit; when the read after the append
\* succeeds this is the balance the confirmation reports.
C7_RoundTrip ==
    [][\A a \in SheetNames :
          Len(sheets'[a]) = Len(sheets[a]) + 1
              => LET data == user_data[UserOf(update'.conv)].temp_data
                     before == calcular_saldo_desde_movimientos(sheets[a], TRUE)
                     after == calcular_saldo_desde_movimientos(sheets'[a], TRUE)
                 IN  /\ data.movimiento \in {MOV_CREDITO, MOV_DEBITO}
                     /\ data.monto > 0
                     /\ after = before + (IF data.movimiento = MOV_CREDITO
                                          THEN data.monto ELSE 0 - data.monto)
                     /\ "get_all_values" \notin store_error' => replies'[1].saldo = after]_vars

\* C7 witness: a debit has just been appended to the ledger that held a
\* movement already, and the confirmation reports the lowered balance
C7_Witness ==
    /\ replies # <<>> /\ replies[1].kind = "movimiento_registrado"
    /\ store_error = {}
    /\ Len(sheets[SHEET_NAME_PERSONAL]) > Len(InitialSheets[SHEET_NAME_PERSONAL])
    /\ sheets[SHEET_NAME_PERSONAL][Len(sheets[SHEET_NAME_PERSONAL])][1] = MOV_DEBITO
    /\ replies[1].saldo
           < calcular_saldo_desde_movimientos(InitialSheets[SHEET_NAME_PERSONAL], TRUE)

\* what a balance or history request answers for a ledger with no data rows
EmptyLedgerAnswers(cuenta) ==
    {ReplySaldo("saldo", cuenta, calcular_saldo_desde_movimientos(<<HEADER>>, TRUE)),
     ReplyTabla("sin_movimientos", cuenta,
                obtener_ultimos_movimientos(<<HEADER>>, TRUE, HISTORIAL_NUM_MOVIMIENTOS))}

\* C8: when reading the ledger fails during a balance or history request,
\* the answer differs from the answer for a ledger with no data rows: not a
\* balance of 0, not "no movements registered".
C8_ReadFailureDistinguishable ==
    \A i \in 1..Len(replies) :
        ("get_all_values" \in store_error
             /\ replies[i].kind \in {"saldo", "historial", "sin_movimientos"})
            => replies[i] \notin EmptyLedgerAnswers(replies[i].cuenta)

\* C9 (as stated): a turn sends at most one outbound reply.
C9_AtMostOneReply == Len(replies) <= 1

\* C9 (amended): a turn runs at most one handler, which changes the state of
\* its own conversation only, once, and sends one or two replies: two when
\* it is volver_al_menu or when it answers a balance or history request (the
\* answer, then the main menu), one otherwise; a command other than /start
\* reaches no handler, changes nothing and is not answered.
C9_OneTransitionOneOrTwoReplies ==
    [][LET c == update'.conv
           text == update'.text
           handler == HandlerFor(conv_state[c], text)
           twice == \/ handler = "volver_al_menu"
                    \/ /\ handler \in {"ver_saldo_seleccion_cuenta",
                                       "ver_ultimos_movimientos_seleccion_cuenta"}
                       /\ CuentaDeOpcion(Strip(text)) # "None"
       IN  /\ \A d \in Conversations \ {c} : conv_state'[d] = conv_state[d]
           /\ conv_state'[c] \in {END, MENU_PRINCIPAL, TIPO_CUENTA, TIPO_MOVIMIENTO,
                                  DESCRIPCION, MONTO, FECHA, VER_SALDO_SELECCION_CUENTA,
                                  VER_ULTIMOS_MOVIMIENTOS_SELECCION_CUENTA}
           /\ handler = "none" => (conv_state' = conv_state /\ replies' = <<>>)
           /\ handler # "none" => Len(replies') = (IF twice THEN 2 ELSE 1)]_vars

\* C9 witness: a balance request has been answered with two replies, the
\* balance and then the main menu
C9_Witness ==
    /\ Len(replies) = 2
    /\ replies[1].kind = "saldo" /\ replies[2].kind = "bienvenida"
    /\ conv_state[CONV] = MENU_PRINCIPAL

\* C10: whenever the conversation is in MainMenu or has ended, the
\* in-progress movement has no field set and no account is selected.
C10_ClearedAtMenuAndEnd ==
    conv_state[CONV] \in {MENU_PRINCIPAL, END} => Cleared(Session)

\* C10 witness: a movement has just been finalized and the conversation is
\* back in MainMenu with its session data cleared
C10_Witness ==
    /\ conv_state[CONV] = MENU_PRINCIPAL
    /\ replies # <<>> /\ replies[1].kind = "movimiento_registrado"
    /\ Appended(sheets) > 0
    /\ Cleared(Session)

\* the text of an amount input once trimmed and with every $ and , removed
CleanedAmount(text) == RemoveChar(RemoveChar(Strip(text), "$"), ",")

\* C11: in AmountEntry an input is accepted, its integer value stored as the
\* amount and DateEntry entered, if and only if the whole text left after
\* trimming and removing $ and , is an integer literal greater than 0; any
\* other input is answered with the invalid-amount reply, the state stays
\* AmountEntry and no amount is stored.
C11_AmountAcceptedIffWholeInteger ==
    [][LET c == update'.conv
           text == update'.text
       IN  HandlerFor(conv_state[c], text) = "monto"
               => IF IsIntegerLiteralAmount(text)
                  THEN /\ conv_state'[c] = FECHA
                       /\ "monto" \in user_data'[UserOf(c)].temp_data.keys
                       /\ user_data'[UserOf(c)].temp_data.monto
                              = DigitsValue(CleanedAmount(text))
                  ELSE /\ conv_state'[c] = MONTO
                       /\ user_data' = user_data
                       /\ replies'[1].kind \in {"monto_invalido", "monto_no_positivo"}]_vars

\* the date a keyword of DateEntry stands for, <<>> for any other input
KeywordDate(text) ==
    IF Lower(Strip(text)) = HOY THEN Strftime(Today)
    ELSE IF Lower(Strip(text)) = AYER THEN Strftime(MinusDays(Today, 1))
    ELSE IF Lower(Strip(text)) = ANTEAYER THEN Strftime(MinusDays(Today, 2))
    ELSE <<>>

\* the rows a turn has added to ledger a
AddedRows(a) == SubSeq(sheets'[a], Len(sheets[a]) + 1, Len(sheets'[a]))

\* C12: in DateEntry hoy / ayer / anteayer, in any letter case, store the
\* current date minus 0 / 1 / 2 days as YYYY-MM-DD; any other input is
\* accepted only if it is a zero-padded YYYY-MM-DD calendar date and is then
\* stored as it is; otherwise the reply is the invalid-date reply, the state
\* stays DateEntry and nothing is appended.  Every date the turn stores in a
\* ledger is in YYYY-MM-DD form.
C12_DateAcceptedIffKeywordOrIso ==
    [][LET c == update'.conv
           text == update'.text
       IN  HandlerFor(conv_state[c], text) = "fecha"
               => /\ (KeywordDate(text) = <<>> /\ ~IsIsoDate(text))
                         => /\ conv_state'[c] = FECHA
                            /\ user_data' = user_data
                            /\ sheets' = sheets
                            /\ replies'[1].kind = "fecha_invalida"
                  /\ \A a \in SheetNames :
                         \A i \in 1..Len(AddedRows(a)) :
                             /\ IsIsoDate(AddedRows(a)[i][4])
                             /\ AddedRows(a)[i][4]
                                    = (IF KeywordDate(text) # <<>> THEN KeywordDate(text)
                                       ELSE Strip(text))
                  /\ (KeywordDate(text) # <<>> \/ IsIsoDate(text))
                         => conv_state'[c] # FECHA]_vars

\* the main menu's choices
REGISTRAR_OPTION == <<"1">>
SALDO_OPTION == <<"2">>
HISTORIAL_OPTION == <<"3">>

\* C13: from MainMenu, the choice 1 leads to AccountSelectForRecord, 2 to
\* AccountSelectForBalance and 3 to AccountSelectForHistory, each leaving the
\* session data and every ledger as they were; the choice 5 ends the
\* conversation and clears the whole session.
C13_MenuTransitions ==
    [][LET c == update'.conv
           opcion == Strip(update'.text)
       IN  HandlerFor(conv_state[c], update'.text) = "menu_principal"
               => /\ sheets' = sheets
                  /\ opcion = REGISTRAR_OPTION
                         => conv_state'[c] = TIPO_CUENTA /\ user_data' = user_data
                  /\ opcion = SALDO_OPTION
                         => conv_state'[c] = VER_SALDO_SELECCION_CUENTA /\ user_data' = user_data
                  /\ opcion = HISTORIAL_OPTION
                         => /\ conv_state'[c] = VER_ULTIMOS_MOVIMIENTOS_SELECCION_CUENTA
                            /\ user_data' = user_data
                  /\ opcion = FINALIZAR_SESION_OPTION
                         => /\ conv_state'[c] = END
                            /\ user_data'[UserOf(c)] = EmptyUserData]_vars

\* C13 witness: the choice 3 has just led from the main menu to the account
\* selection of the history
C13_Witness ==
    /\ update = [conv |-> CONV, text |-> HISTORIAL_OPTION]
    /\ conv_state[CONV] = VER_ULTIMOS_MOVIMIENTOS_SELECCION_CUENTA
    /\ replies = <<Reply("pedir_cuenta_historial")>>

(***************************************************************************)
(* One user in two chats: two conversations, keyed (chat id, user id), and *)
(* one context.user_data, keyed by the user id alone                       *)
(***************************************************************************)
Chats == {<<1, 1>>, <<2, 1>>}

\* the messages the user sends in a state, in either chat
ChatInputs(state) ==
    IF state = DESCRIPCION THEN {VOLVER_AL_MENU_OPTION, CAFE}
    ELSE IF state = MONTO THEN {VOLVER_AL_MENU_OPTION, <<"5">>}
    ELSE IF state = FECHA THEN {VOLVER_AL_MENU_OPTION, HOY}
    ELSE {VOLVER_AL_MENU_OPTION, REGISTRAR_OPTION, SALDO_OPTION, HISTORIAL_OPTION,
          FINALIZAR_SESION_OPTION, OTHER_COMMAND}

NextChats ==
    \/ \E c \in Chats : \E text \in ChatInputs(conv_state[c]) : Start(c, text)
    \/ \E c \in Chats : \E text \in ChatInputs(conv_state[c]) : MenuPrincipal(c, text)
    \/ \E c \in Chats : \E text \in ChatInputs(conv_state[c]) : VolverAlMenu(c, text)
    \/ \E c \in Chats : \E text \in ChatInputs(conv_state[c]) : TipoCuenta(c, text)
    \/ \E c \in Chats : \E text \in ChatInputs(conv_state[c]) : TipoMovimiento(c, text)
    \/ \E c \in Chats : \E text \in ChatInputs(conv_state[c]) : Descripcion(c, text)
    \/ \E c \in Chats : \E text \in ChatInputs(conv_state[c]) : Monto(c, text)
    \/ \E c \in Chats : \E text \in ChatInputs(conv_state[c]) : Fecha(c, text)
    \/ \E c \in Chats : \E text \in ChatInputs(conv_state[c]) :
           VerSaldoSeleccionCuenta(c, text)
    \/ \E c \in Chats : \E text \in ChatInputs(conv_state[c]) :
           VerUltimosMovimientosSeleccionCuenta(c, text)
    \/ \E c \in Chats : \E text \in ChatInputs(conv_state[c]) : Unhandled(c, text)

SpecChats == Init /\ [][NextChats]_vars

\* C14: a turn of one conversation leaves the session of every other
\* conversation that has one (its state, selected account and in-progress
\* movement) as it was, also when both conversations are of the same user in
\* two chats.
C14_SessionsIsolated ==
    [][\A d \in Chats :
          (d # update'.conv /\ conv_state[d] # END)
              => /\ conv_state'[d] = conv_state[d]
                 /\ user_data'[UserOf(d)].selected_sheet = user_data[UserOf(d)].selected_sheet
                 /\ user_data'[UserOf(d)].temp_data = user_data[UserOf(d)].temp_data]_vars

\* the session start leaves: temp_data an empty dict, selected_sheet None
FreshSession ==
    [keys |-> {"temp_data", "selected_sheet"}, temp_data |-> EmptyTemp,
     selected_sheet |-> "None"]

\* what C15 promises of a turn of conversation c: a fresh session in
\* MainMenu, the message answered with the menu and not taken as a choice
StartsFresh(c) ==
    /\ conv_state'[c] = MENU_PRINCIPAL
    /\ user_data'[UserOf(c)] = FreshSession
    /\ replies' = <<Reply("bienvenida")>>
    /\ sheets' = sheets

\* C15 (as stated): for a conversation with no active session, the next text
\* message, whatever its content, creates a fresh session in MainMenu.
C15_AnyTextStartsFresh ==
    [][conv_state[update'.conv] = END => StartsFresh(update'.conv)]_vars

\* C15 (amended): for a conversation with no active session, the next text
\* message that is not a command, or the /start command, creates a fresh
\* session in MainMenu and is not taken as a menu choice; any other command
\* is ignored: no session is created and nothing is replied.
C15_TextOrStartCommandStartsFresh ==
    [][LET c == update'.conv
           text == update'.text
       IN  conv_state[c] = END
               => IF ~IsCommand(text) \/ IsStartCommand(text)
                  THEN StartsFresh(c)
                  ELSE /\ conv_state'[c] = END
                       /\ user_data' = user_data
                       /\ replies' = <<>>
                       /\ sheets' = sheets]_vars

\* C15 witness: the text "5", sent when the conversation had no session, has
\* opened the main menu instead of being taken as the exit choice
C15_Witness ==
    /\ update = [conv |-> CONV, text |-> FINALIZAR_SESION_OPTION]
    /\ conv_state[CONV] = MENU_PRINCIPAL
    /\ Session = FreshSession
    /\ replies = <<Reply("bienvenida")>>

\* the handlers a conversation has gone through, in order, when it stands
\* in DateEntry for a movement
TRAIL_TO_FECHA ==
    <<"menu_principal", "tipo_cuenta", "tipo_movimiento", "descripcion", "monto">>

\* C16: a turn of a conversation that appends a row is the DateEntry turn
\* reached, since the conversation last stood in MainMenu, through the
\* RecordMovement choice, AccountSelectForRecord, DirectionSelect,
\* DescriptionEntry and AmountEntry, in that order and none skipped; the row
\* is the movement those turns collected with the date of this turn, the
\* balance replied is computed from the ledger with the row in it, and the
\* turn ends in MainMenu with the in-progress data cleared.
C16_AppendAfterOrderedEntry ==
    [][\A a \in SheetNames :
          sheets'[a] # sheets[a]
              => LET c == update'.conv
                     text == update'.text
                     before == user_data[UserOf(c)]
                 IN  /\ conv_state[c] = FECHA
                     /\ HandlerFor(conv_state[c], text) = "fecha"
                     /\ trail[c] = TRAIL_TO_FECHA
                     /\ before.selected_sheet = a
                     /\ {"movimiento", "descripcion", "monto"} \subseteq before.temp_data.keys
                     /\ sheets'[a] = Append(sheets[a],
                                            <<before.temp_data.movimiento,
                                              before.temp_data.descripcion,
                                              IntToText(before.temp_data.monto),
                                              FechaAGuardar(Strip(text)).val>>)
                     /\ "get_all_values" \notin store_error'
                            => replies'[1].saldo
                                   = calcular_saldo_desde_movimientos(sheets'[a], TRUE)
                     /\ conv_state'[c] = MENU_PRINCIPAL
                     /\ Cleared(user_data'[UserOf(c)])
                     /\ trail'[c] = <<>>]_vars

\* C16 witness: a row has just been appended by a turn that ended in MainMenu
C16_Witness ==
    /\ Appended(sheets) > 0
    /\ replies # <<>> /\ replies[1].kind = "movimiento_registrado"
    /\ store_error = {}
    /\ conv_state[CONV] = MENU_PRINCIPAL
    /\ trail[CONV] = <<>>

\* C17: a ledger changes only in a valid DateEntry turn, one whose input the
\* DateEntry handler accepts with an account selected: that turn appends one
\* row at the end of the ledger of the selected account (none when
\* append_row raises) and leaves that ledger's other rows and the other
\* ledger as they were; every other turn (balance and history requests, back
\* to menu, exit, a rejected input) leaves every ledger unchanged.
C17_OnlyDateTurnAppends ==
    [][LET c == update'.conv
           text == update'.text
           selected == user_data[UserOf(c)].selected_sheet
       IN  IF /\ HandlerFor(conv_state[c], text) = "fecha"
              /\ FechaReachesStore(user_data[UserOf(c)], text)
           THEN \A a \in SheetNames :
                    IF a = selected /\ "append_row" \notin store_error'
                    THEN /\ Len(sheets'[a]) = Len(sheets[a]) + 1
                         /\ SubSeq(sheets'[a], 1, Len(sheets[a])) = sheets[a]
                    ELSE sheets'[a] = sheets[a]
           ELSE sheets' = sheets]_vars

\* C17 witness: a row has just been appended below the movement the ledger
\* already held
C17_Witness ==
    /\ update.conv = CONV /\ Lower(Strip(update.text)) = HOY
    /\ store_error = {}
    /\ Len(sheets[SHEET_NAME_PERSONAL]) = Len(InitialSheets[SHEET_NAME_PERSONAL]) + 1
    /\ sheets[SHEET_NAME_NEGOCIOS] = InitialSheets[SHEET_NAME_NEGOCIOS]

\* C18: when append_row raises in a valid DateEntry turn, the turn still
\* completes: the state is MainMenu, the in-progress movement and the
\* selected account are cleared, every ledger is as it was and a reply is
\* sent.
C18_AppendFailureKeepsSession ==
    [][LET c == update'.conv
       IN  (HandlerFor(conv_state[c], update'.text) = "fecha"
                /\ "append_row" \in store_error')
               => /\ conv_state'[c] = MENU_PRINCIPAL
                  /\ Cleared(user_data'[UserOf(c)])
                  /\ sheets' = sheets
                  /\ Len(replies') = 1]_vars

\* C18 witness: append_row has just raised in a DateEntry turn
C18_Witness ==
    /\ "append_row" \in store_error
    /\ conv_state[CONV] = MENU_PRINCIPAL
    /\ Appended(sheets) = 0
    /\ replies # <<>>

(***************************************************************************)
(* The update loop with two users.  The Application is built without       *)
(* concurrent updates, so it takes the next update only when the handler   *)
(* of the current one has returned, and the worksheet calls are plain      *)
(* blocking calls inside the handler: while one is under way, pc says      *)
(* which ("append_row", "get_all_values") and update says for whose turn.  *)
(***************************************************************************)
Callers == {<<1, 1>>, <<3, 2>>}

\* the messages a user sends in a state; each user has their own description
LoopInputs(c, state) ==
    IF state = DESCRIPCION THEN {VOLVER_AL_MENU_OPTION, IF UserOf(c) = 1 THEN CAFE ELSE LIBRO}
    ELSE IF state = MONTO THEN {VOLVER_AL_MENU_OPTION, <<"5">>}
    ELSE IF state = FECHA
    THEN {VOLVER_AL_MENU_OPTION, HOY, <<"2", "0", "2", "4", "-", "1", "3", "-", "4", "0">>}
    ELSE {VOLVER_AL_MENU_OPTION, REGISTRAR_OPTION, SALDO_OPTION, HISTORIAL_OPTION,
          FINALIZAR_SESION_OPTION, OTHER_COMMAND}

\* fecha accepts the date and calls guardar_en_sheet, which calls append_row
FechaLlamaAppendRow(c, text) ==
    /\ pc = "conv"
    /\ HandlerFor(conv_state[c], text) = "fecha"
    /\ FechaReachesStore(user_data[UserOf(c)], text)
    /\ user_data' = [user_data EXCEPT ![UserOf(c)] = fecha_hasta_guardar(@, text)]
    /\ update' = [conv |-> c, text |-> text]
    /\ replies' = <<>>
    /\ store_error' = {}
    /\ pc' = "append_row"
    /\ UNCHANGED <<conv_state, sheets, trail, aggVars>>

\* append_row returns or raises; guardar_en_sheet returns and fecha calls
\* calcular_saldo_desde_movimientos, which calls get_all_values
AppendRowVuelve ==
    /\ pc = "append_row"
    /\ \E ap \in BOOLEAN :
       \E ud \in {user_data[UserOf(update.conv)]} :
          /\ sheets' = [sheets EXCEPT ![ud.selected_sheet] =
                            guardar_en_sheet(@, ud.temp_data, ap)]
          /\ store_error' = IF ap THEN {} ELSE {"append_row"}
    /\ pc' = "get_all_values"
    /\ UNCHANGED <<conv_state, user_data, update, replies, trail, aggVars>>

\* a balance or history request for an account calls get_all_values
ConsultaLlamaGetAllValues(c, text) ==
    /\ pc = "conv"
    /\ HandlerFor(conv_state[c], text)
           \in {"ver_saldo_seleccion_cuenta", "ver_ultimos_movimientos_seleccion_cuenta"}
    /\ CuentaDeOpcion(Strip(text)) # "None"
    /\ update' = [conv |-> c, text |-> text]
    /\ replies' = <<>>
    /\ store_error' = {}
    /\ pc' = "get_all_values"
    /\ UNCHANGED <<conv_state, user_data, sheets, trail, aggVars>>

\* what the handler in the given state, inside get_all_values, does once
\* the call returns (rd) or raises
TrasGetAllValues(state, ud, text, rd) ==
    IF state = FECHA
    THEN fecha_tras_guardar(ud, sheets[ud.selected_sheet], rd)
    ELSE IF state = VER_SALDO_SELECCION_CUENTA
    THEN ver_saldo_seleccion_cuenta(ud, sheets, text, rd).out
    ELSE ver_ultimos_movimientos_seleccion_cuenta(ud, sheets, text, rd).out

\* get_all_values returns or raises; the handler replies and returns
GetAllValuesVuelve ==
    /\ pc = "get_all_values"
    /\ \E rd \in BOOLEAN :
       \E c \in {update.conv} :
       \E o \in {TrasGetAllValues(conv_state[c], user_data[UserOf(c)], update.text, rd)} :
          /\ conv_state' = [conv_state EXCEPT ![c] = o.state]
          /\ user_data' = [user_data EXCEPT ![UserOf(c)] = o.ud]
          /\ replies' = o.replies
          /\ store_error' = store_error \cup (IF rd THEN {} ELSE {"get_all_values"})
          /\ trail' = [trail EXCEPT ![c] =
                           Trail(@, conv_state[c], o.state,
                                 HandlerFor(conv_state[c], update.text))]
    /\ pc' = "conv"
    /\ UNCHANGED <<sheets, update, aggVars>>

\* fecha rejects the date, or finds no account selected: no worksheet call
FechaSinLlamada(c, text) ==
    /\ pc = "conv"
    /\ HandlerFor(conv_state[c], text) = "fecha"
    /\ ~FechaReachesStore(user_data[UserOf(c)], text)
    /\ \E r \in {fecha(user_data[UserOf(c)], sheets, text, TRUE, TRUE)} :
       \E o \in {r.out} : Apply(c, text, o, sheets, {})

\* a balance or history request with an option that is no account: no
\* worksheet call
ConsultaSinLlamada(c, text) ==
    /\ pc = "conv"
    /\ HandlerFor(conv_state[c], text)
           \in {"ver_saldo_seleccion_cuenta", "ver_ultimos_movimientos_seleccion_cuenta"}
    /\ CuentaDeOpcion(Strip(text)) = "None"
    /\ \E o \in {Out(conv_state[c], user_data[UserOf(c)], <<Reply("opcion_invalida")>>)} :
          Apply(c, text, o, sheets, {})

\* the other handlers make no worksheet call and run as in Spec
NextLoop ==
    \/ \E c \in Callers : \E text \in LoopInputs(c, conv_state[c]) : Start(c, text)
    \/ \E c \in Callers : \E text \in LoopInputs(c, conv_state[c]) : MenuPrincipal(c, text)
    \/ \E c \in Callers : \E text \in LoopInputs(c, conv_state[c]) : VolverAlMenu(c, text)
    \/ \E c \in Callers : \E text \in LoopInputs(c, conv_state[c]) : TipoCuenta(c, text)
    \/ \E c \in Callers : \E text \in LoopInputs(c, conv_state[c]) : TipoMovimiento(c, text)
    \/ \E c \in Callers : \E text \in LoopInputs(c, conv_state[c]) : Descripcion(c, text)
    \/ \E c \in Callers : \E text \in LoopInputs(c, conv_state[c]) : Monto(c, text)
    \/ \E c \in Callers : \E text \in LoopInputs(c, conv_state[c]) : FechaSinLlamada(c, text)
    \/ \E c \in Callers : \E text \in LoopInputs(c, conv_state[c]) :
           FechaLlamaAppendRow(c, text)
    \/ AppendRowVuelve
    \/ \E c \in Callers : \E text \in LoopInputs(c, conv_state[c]) :
           ConsultaSinLlamada(c, text)
    \/ \E c \in Callers : \E text \in LoopInputs(c, conv_state[c]) :
           ConsultaLlamaGetAllValues(c, text)
    \/ GetAllValuesVuelve
    \/ \E c \in Callers : \E text \in LoopInputs(c, conv_state[c]) : Unhandled(c, text)

SpecLoop == Init /\ [][NextLoop]_vars

\* the loop takes a message of conversation d and runs its handler, up to
\* the handler's return or its first worksheet call
TurnBegins(d, text) ==
    \/ Start(d, text)
    \/ MenuPrincipal(d, text)
    \/ VolverAlMenu(d, text)
    \/ TipoCuenta(d, text)
    \/ TipoMovimiento(d, text)
    \/ Descripcion(d, text)
    \/ Monto(d, text)
    \/ FechaSinLlamada(d, text)
    \/ FechaLlamaAppendRow(d, text)
    \/ ConsultaSinLlamada(d, text)
    \/ ConsultaLlamaGetAllValues(d, text)
    \/ Unhandled(d, text)

\* C19: while the turn of one conversation is inside a worksheet call
\* (append_row or get_all_values), a message of any other conversation can
\* be taken and its turn run.
C19_StoreCallDoesNotBlockOthers ==
    pc \in {"append_row", "get_all_values"}
        => \A d \in Callers \ {update.conv} :
               ENABLED (\E text \in LoopInputs(d, conv_state[d]) : TurnBegins(d, text))

\* whether s is the beginning of t
IsPrefix(s, t) == Len(s) <= Len(t) /\ SubSeq(t, 1, Len(s)) = s

\* C20: with two conversations recording movements in any interleaving of
\* their messages, no row of a ledger is ever lost, changed or moved; each
\* append_row that returns adds the caller's movement once, below every row
\* written before it; and when both worksheet calls of the turn return, the
\* confirmation reports the balance of the ledger with the caller's own row
\* still the last one, that is the balance before the append plus or minus
\* the movement's amount.
C20_ConcurrentAppends ==
    [][LET c == update'.conv
           ud == user_data[UserOf(c)]
           a == ud.selected_sheet
       IN  /\ \A b \in SheetNames : IsPrefix(sheets[b], sheets'[b])
           /\ (pc = "append_row" /\ "append_row" \notin store_error')
                  => /\ sheets'[a] = Append(sheets[a], RowData(ud.temp_data))
                     /\ \A b \in SheetNames \ {a} : sheets'[b] = sheets[b]
           /\ pc # "append_row" => sheets' = sheets
           /\ (pc = "get_all_values" /\ conv_state[c] = FECHA /\ store_error' = {})
                  => /\ sheets[a][Len(sheets[a])] = RowData(ud.temp_data)
                     /\ replies'[1].kind = "movimiento_registrado"
                     /\ replies'[1].saldo
                            = calcular_saldo_desde_movimientos(
                                  SubSeq(sheets[a], 1, Len(sheets[a]) - 1), TRUE)
                              + (IF ud.temp_data.movimiento = MOV_CREDITO
                                 THEN ud.temp_data.monto ELSE 0 - ud.temp_data.monto)]_vars

\* C20 witness: both users have recorded a movement in the same ledger, and
\* the second confirmation has just been sent
C20_Witness ==
    /\ pc = "conv" /\ store_error = {}
    /\ replies # <<>> /\ replies[1].kind = "movimiento_registrado"
    /\ Len(sheets[SHEET_NAME_PERSONAL]) = Len(InitialSheets[SHEET_NAME_PERSONAL]) + 2
    /\ {sheets[SHEET_NAME_PERSONAL][i][2] :
            i \in Len(InitialSheets[SHEET_NAME_PERSONAL]) + 1..Len(sheets[SHEET_NAME_PERSONAL])}
           = {CAFE, LIBRO}

\* C21: in DescriptionEntry a text that is empty after trimming is
\* rejected, the state staying DescriptionEntry with no description stored;
\* a text that is not empty after trimming is stored as the description and
\* leads to AmountEntry; no row with a blank description is appended.
C21_BlankDescriptionRejected ==
    [][LET c == update'.conv
           text == update'.text
       IN  /\ HandlerFor(conv_state[c], text) = "descripcion"
                  => IF Strip(text) = <<>>
                     THEN /\ conv_state'[c] = DESCRIPCION
                          /\ user_data' = user_data
                     ELSE /\ conv_state'[c] = MONTO
                          /\ "descripcion" \in user_data'[UserOf(c)].temp_data.keys
                          /\ Strip(user_data'[UserOf(c)].temp_data.descripcion) = Strip(text)
           /\ \A a \in SheetNames :
                  \A i \in 1..Len(AddedRows(a)) : Strip(AddedRows(a)[i][2]) # <<>>]_vars

\* the keys of temp_data that are set once the conversation stands in a state
KeysIn(state) ==
    IF state = TIPO_MOVIMIENTO THEN {"account_name"}
    ELSE IF state = DESCRIPCION THEN {"account_name", "movimiento"}
    ELSE IF state = MONTO THEN {"account_name", "movimiento", "descripcion"}
    ELSE IF state = FECHA THEN {"account_name", "movimiento", "descripcion", "monto"}
    ELSE {}

\* C22: in every reachable state of one conversation, DirectionSelect
\* implies that the account is selected, DescriptionEntry also that the
\* direction is set, AmountEntry also the description, DateEntry also the
\* amount; the no-account branch of DateEntry is never taken.
C22_StateImpliesFieldsSet ==
    /\ conv_state[CONV] \in {TIPO_MOVIMIENTO, DESCRIPCION, MONTO, FECHA}
           => /\ Session.selected_sheet \in SheetNames
              /\ KeysIn(conv_state[CONV]) \subseteq Session.temp_data.keys
              /\ Session.temp_data.account_name = Session.selected_sheet
    /\ conv_state[CONV] \in {DESCRIPCION, MONTO, FECHA}
           => Session.temp_data.movimiento \in {MOV_CREDITO, MOV_DEBITO}
    /\ conv_state[CONV] = FECHA => Session.temp_data.monto > 0
    /\ \A i \in 1..Len(replies) : replies[i].kind # "error_sin_cuenta"

\* C22 witness: the conversation stands in DateEntry with the account, the
\* direction, the description and the amount set
C22_Witness ==
    /\ conv_state[CONV] = FECHA
    /\ Session.selected_sheet = SHEET_NAME_NEGOCIOS
    /\ Session.temp_data.keys = {"account_name", "movimiento", "descripcion", "monto"}
    /\ Session.temp_data.movimiento = MOV_DEBITO

\* C23: in a state other than MainMenu the text "5" does not end the
\* conversation nor clear the session: it is an invalid selection in the
\* account selections and in DirectionSelect, the description in
\* DescriptionEntry, the amount 5 in AmountEntry, an invalid date in
\* DateEntry.  (From MainMenu it ends the conversation: C13.)
C23_ExitOnlyFromMainMenu ==
    [][LET c == update'.conv
           state == conv_state[c]
           before == user_data[UserOf(c)]
           after == user_data'[UserOf(c)]
       IN  (Strip(update'.text) = FINALIZAR_SESION_OPTION /\ state \notin {MENU_PRINCIPAL, END})
               => /\ conv_state'[c] # END
                  /\ sheets' = sheets
                  /\ state \in {TIPO_CUENTA, TIPO_MOVIMIENTO, VER_SALDO_SELECCION_CUENTA,
                                VER_ULTIMOS_MOVIMIENTOS_SELECCION_CUENTA, FECHA}
                         => /\ conv_state'[c] = state
                            /\ after = before
                            /\ replies'[1].kind
                                   = (IF state = FECHA THEN "fecha_invalida"
                                      ELSE "opcion_invalida")
                  /\ state = DESCRIPCION
                         => /\ conv_state'[c] = MONTO
                            /\ after = SetTemp(before, "descripcion", update'.text)
                  /\ state = MONTO
                         => /\ conv_state'[c] = FECHA
                            /\ after = SetTemp(before, "monto", 5)]_vars

\* C23 witness: the text "5" has just been stored as the amount 5
C23_Witness ==
    /\ update = [conv |-> CONV, text |-> FINALIZAR_SESION_OPTION]
    /\ conv_state[CONV] = FECHA
    /\ Session.temp_data.monto = 5
    /\ replies = <<Reply("pedir_fecha")>>

====
